---- MODULE Spec2Model ----
(***************************************************************************)
(* Model of the history tracker of torch_geometric/nn/models/re_net.py     *)
(* (RENet.pre_transform -> PreTransform).  Python lists are modelled as    *)
(* TLA+ sequences; the Python index i is the sequence index i + 1.  A      *)
(* stored history entry [partner, rel] is the pair <<partner, rel>>.       *)
(***************************************************************************)
EXTENDS Integers, Sequences, FiniteSets, TLC

\* Bounds of the model.  Inc stands for self.inc (5000 in the source),
\* scaled down so that the buffers can be enumerated.
Inc == 2
MaxSeqLen == 2
MaxRel == 1
MaxT == 2
MaxEvents == 2
\* Largest batch_size given to forward.
MaxBatch == 3
\* Largest num_layers, hidden_channels and num_nodes RENet is built with.
MaxLayers == 2
MaxHidden == 2
MaxNumNodes == 3

\* Entity ids fed to the tracker.  Subjects: an id inside the initial capacity
\* and the first id that needs one growth.  Objects: the same, a second id
\* inside the initial capacity, and an id more than one increment away.
Subjects == {0, Inc}
Objects == {0, 1, Inc, 2 * Inc}
\* Relation ids and timestamps (a negative one, the initial t_last, two later).
Rels == {0, MaxRel}
Times == {-1, 0, 1, MaxT}

\* seq_len, t_last, sub_hist, obj_hist: the fields of PreTransform.
\* data: the data object returned by the last call.  raised: the last call
\* left with an IndexError.  Observers of the run (not fields of the program):
\* calls (number of calls made), shifts (number of times step ran on the
\* buffers), seen_sub / seen_obj (ids recorded as subject / object so far),
\* on_scenario (the calls made so far are a prefix of Scenario), first (the
\* event recorded by the first call, the value of shifts when it was
\* recorded, and whether the same event was recorded again later), max_t
\* (the maximum of 0 and the timestamps of the calls that returned).
VARIABLES seq_len, t_last, sub_hist, obj_hist, data, raised,
          calls, shifts, seen_sub, seen_obj, on_scenario, first, max_t

\* net: the RENet module and the shapes of what its last forward returned.
VARIABLE net

vars == <<seq_len, t_last, sub_hist, obj_hist, data, raised,
          calls, shifts, seen_sub, seen_obj, on_scenario, first,
          max_t, net>>

\* Python list indexing with a non-negative index.
At(list, i) == list[i + 1]

Max(a, b) == IF a >= b THEN a ELSE b

\* Python list slice l[1:].
DropFirst(l) == IF l = <<>> THEN <<>> ELSE Tail(l)

\* torch.zeros((inc, seq_len, 0)).tolist(): inc entities with seq_len empty slots.
HistInc(n, sl) == [i \in 1..n |-> [s \in 1..sl |-> <<>>]]

\* Variant of increase_hist_node_size that appends a single entity.
increase_by_one(hist, sl) == hist \o HistInc(1, sl)

\* increase_hist_node_size(hist): hist + hist_inc.tolist().
increase_hist_node_size(hist, sl) == hist \o HistInc(Inc, sl)

\* The loop of get_history over the slots 0..s-1: the concatenated entries.
RECURSIVE Hists(_, _, _)
Hists(hist, node, s) ==
    IF s = 0 THEN <<>>
    ELSE Hists(hist, node, s - 1) \o At(At(hist, node), s - 1)

\* torch.full((len(h),), s): the slot index s repeated once per entry.
Full(n, s) == [k \in 1..n |-> s]

\* torch.cat(ts) for the slots 0..s-1.
RECURSIVE Ts(_, _, _)
Ts(hist, node, s) ==
    IF s = 0 THEN <<>>
    ELSE Ts(hist, node, s - 1) \o Full(Len(At(At(hist, node), s - 1)), s - 1)

\* Variant of the mask indexing that keeps every entry.
MaskedNone(x, rels, rel) == x

\* Boolean-mask indexing x[rels == rel].
RECURSIVE Masked(_, _, _)
Masked(x, rels, rel) ==
    IF x = <<>> THEN <<>>
    ELSE IF Head(rels) = rel
         THEN <<Head(x)>> \o Masked(Tail(x), Tail(rels), rel)
         ELSE Masked(Tail(x), Tail(rels), rel)

\* Variant of get_history that leaves out the newest slot.
get_history_past_only(hist, node, rel, sl) ==
    LET hists == Hists(hist, node, sl - 1)
        partner == [k \in 1..Len(hists) |-> hists[k][1]]
        rels == [k \in 1..Len(hists) |-> hists[k][2]]
    IN  <<Masked(partner, rels, rel), Masked(Ts(hist, node, sl - 1), rels, rel)>>

\* get_history(hist, node, rel): the pair (node, t).
get_history(hist, node, rel, sl) ==
    LET hists == Hists(hist, node, sl)
        partner == [k \in 1..Len(hists) |-> hists[k][1]]
        rels == [k \in 1..Len(hists) |-> hists[k][2]]
    IN  <<Masked(partner, rels, rel), Masked(Ts(hist, node, sl), rels, rel)>>

\* The list object the local name hists of get_history is bound to:
\* NewList for a list created by the call, otherwise the index of the slot
\* of hist[node] the name aliases.
NewList == -1

\* Variant of the binding in which hists aliases slot 0 of hist[node].
HistsObjectSlot0(node) == 0

\* Line 71: hists = [] is a list of its own.
HistsObject(node) == NewList

\* hists += h extends the object bound to hists in place.
ExtendInPlace(hist, node, target, h) ==
    IF target = NewList THEN hist
    ELSE [hist EXCEPT ![node + 1] = [@ EXCEPT ![target + 1] = @ \o h]]

\* The buffer hist as get_history(hist, node, rel) leaves it after the
\* iterations s' = 0..s-1 of its loop.
RECURSIVE AfterQuery(_, _, _)
AfterQuery(hist, node, s) ==
    IF s = 0 THEN hist
    ELSE LET before == AfterQuery(hist, node, s - 1)
         IN  ExtendInPlace(before, node, HistsObject(node),
                           At(At(before, node), s - 1))

\* Variant of step that shifts towards the newest slot.
step_backwards(hist) ==
    [i \in 1..Len(hist) |->
        <<<<>>>> \o SubSeq(hist[i], 1, Len(hist[i]) - 1)]

\* Variant of step that appends the new slot without dropping slot 0.
step_no_drop(hist) == [i \in 1..Len(hist) |-> Append(hist[i], <<>>)]

\* step(hist): every entity drops slot 0 and gets a new empty last slot.
step(hist) == [i \in 1..Len(hist) |-> Append(DropFirst(hist[i]), <<>>)]

\* Variant of the record that inserts the entry at the front of the slot.
PrependLast(hist, node, entry) ==
    [hist EXCEPT ![node + 1] =
        [@ EXCEPT ![Len(@)] = <<entry>> \o @]]

\* Variant of the record that indexes the buffer by the partner id.
AppendLastAtPartner(hist, node, entry) ==
    [hist EXCEPT ![entry[1] + 1] =
        [@ EXCEPT ![Len(@)] = Append(@, entry)]]

\* hist[node][-1].append(entry)
AppendLast(hist, node, entry) ==
    [hist EXCEPT ![node + 1] =
        [@ EXCEPT ![Len(@)] = Append(@, entry)]]

\* The capacity step of __call__ (one growth of both buffers at most).
NeedsGrowth(hist, sub, obj) == Max(sub, obj) + 1 > Len(hist)

Grown(hist, cond, sl) == IF cond THEN increase_hist_node_size(hist, sl) ELSE hist

\* Variant of the advance step that shifts once per elapsed time unit.
RECURSIVE StepTimes(_, _)
StepTimes(hist, n) ==
    IF n <= 0 THEN hist
    ELSE StepTimes([i \in 1..Len(hist) |-> Append(DropFirst(hist[i]), <<>>)], n - 1)

AdvancedByGap(hist, t, tl) == StepTimes(hist, t - tl)

\* Variant of the advance step that also shifts on an equal timestamp.
AdvancedOnEqual(hist, t, tl) ==
    IF t >= tl
    THEN [i \in 1..Len(hist) |-> Append(DropFirst(hist[i]), <<>>)]
    ELSE hist

\* Variant of the advance step that shifts on any change of timestamp.
AdvancedOnDifferent(hist, t, tl) ==
    IF t # tl
    THEN [i \in 1..Len(hist) |-> Append(DropFirst(hist[i]), <<>>)]
    ELSE hist

\* The advance step of __call__.
Advanced(hist, t, tl) == IF t > tl THEN step(hist) ELSE hist

\* Variant of the t_last update that follows every timestamp.
NewTLastAlways(t, tl) == t

NewTLast(t, tl) == IF t > tl THEN t ELSE tl

NoHistory == <<>>

NoData == [sub |-> 0, rel |-> 0, obj |-> 0, t |-> 0,
           h_sub |-> NoHistory, h_sub_t |-> NoHistory,
           h_obj |-> NoHistory, h_obj_t |-> NoHistory]

\* The event stream of the worked scenario: (sub, rel, obj, t) in order.
Scenario == << <<0, 0, 1, 0>>, <<0, 0, 2, 1>> >>

\* Observer: the events processed so far are exactly a prefix of Scenario.
Follows(sub, rel, obj, t) ==
    /\ on_scenario
    /\ calls < Len(Scenario)
    /\ <<sub, rel, obj, t>> = Scenario[calls + 1]

\* Variant of the bucket id that leaves out the factor seq_len.
BucketIdNoStride(h_t, h_batch, sl) == h_t + h_batch

\* forward, lines 122-123: h_sub_t = data.h_sub_t + data.h_sub_batch * seq_len.
BucketId(h_t, h_batch, sl) == h_t + h_batch * sl

\* forward, lines 129 and 134: dim_size = batch_size * seq_len.
DimSize(batch_size, sl) == batch_size * sl

\* Observer: the first recorded event (none while at = -1).
NoFirst == [sub |-> 0, rel |-> 0, obj |-> 0, at |-> -1, again |-> FALSE]

Tracked(sub, rel, obj, at) ==
    IF first.at = -1
    THEN [sub |-> sub, rel |-> rel, obj |-> obj, at |-> at, again |-> FALSE]
    ELSE [first EXCEPT !.again =
             @ \/ (sub = first.sub /\ rel = first.rel /\ obj = first.obj)]

\* Tensor shapes are sequences of dimension sizes; ShapeError stands for the
\* RuntimeError torch raises on operands whose shapes do not fit.
ShapeError == <<-1>>

\* h_n of torch.nn.GRU: (num_layers, batch, hidden_size).
GRUHidden(num_layers, batch_size, hidden) == <<num_layers, batch_size, hidden>>

\* Tensor.squeeze(0): drops dimension 0 if and only if its size is 1.
Squeeze0(shape) == IF shape[1] = 1 THEN Tail(shape) ELSE shape

\* torch.cat([a, b, c], dim=-1): equal rank and equal leading dimensions.
CatLast(a, b, c) ==
    IF /\ Len(a) = Len(b) /\ Len(b) = Len(c)
       /\ SubSeq(a, 1, Len(a) - 1) = SubSeq(b, 1, Len(b) - 1)
       /\ SubSeq(b, 1, Len(b) - 1) = SubSeq(c, 1, Len(c) - 1)
    THEN SubSeq(a, 1, Len(a) - 1) \o <<a[Len(a)] + b[Len(b)] + c[Len(c)]>>
    ELSE ShapeError

\* torch.nn.Linear(in_features, out_features) applied to a tensor.
LinearShape(shape, in_features, out_features) ==
    IF shape # ShapeError /\ shape[Len(shape)] = in_features
    THEN SubSeq(shape, 1, Len(shape) - 1) \o <<out_features>>
    ELSE ShapeError

\* Lines 140-153 of forward for one role: the shape of pred_sub / pred_obj.
PredShape(num_layers, batch_size, hidden, num_nodes) ==
    LET own == <<batch_size, hidden>>
        h == Squeeze0(GRUHidden(num_layers, batch_size, hidden))
    IN  LinearShape(CatLast(own, h, own), 3 * hidden, num_nodes)

NoNet == [num_layers |-> 0, hidden_channels |-> 0, num_nodes |-> 0,
          batch_size |-> 0, state |-> "none",
          h_sub |-> <<>>, pred_sub |-> <<>>, pred_obj |-> <<>>]

\* The tracker after PreTransform.__init__.
Init ==
    /\ net = NoNet
    /\ seq_len \in 1..MaxSeqLen
    /\ t_last = 0
    /\ sub_hist = increase_hist_node_size(<<>>, seq_len)
    /\ obj_hist = increase_hist_node_size(<<>>, seq_len)
    /\ data = NoData
    /\ raised = FALSE
    /\ calls = 0
    /\ shifts = 0
    /\ seen_sub = {}
    /\ seen_obj = {}
    /\ on_scenario = TRUE
    /\ first = NoFirst
    /\ max_t = 0

\* Variant of __call__ that reads the history after advancing and recording.
CallLeaky(sub, rel, obj, t) ==
    LET cond == NeedsGrowth(sub_hist, sub, obj)
        sh1 == Grown(sub_hist, cond, seq_len)
        oh1 == Grown(obj_hist, cond, seq_len)
        sh3 == AppendLast(Advanced(sh1, t, t_last), sub, <<obj, rel>>)
        oh3 == AppendLast(Advanced(oh1, t, t_last), obj, <<sub, rel>>)
        hs == get_history(sh3, sub, rel, seq_len)
        ho == get_history(oh3, obj, rel, seq_len)
    IN  /\ ~raised
        /\ calls < MaxEvents
        /\ sub < Len(sh1)
        /\ obj < Len(oh1)
        /\ data' = [sub |-> sub, rel |-> rel, obj |-> obj, t |-> t,
                    h_sub |-> hs[1], h_sub_t |-> hs[2],
                    h_obj |-> ho[1], h_obj_t |-> ho[2]]
        /\ t_last' = NewTLast(t, t_last)
        /\ sub_hist' = sh3
        /\ obj_hist' = oh3
        /\ calls' = calls + 1
        /\ shifts' = IF t > t_last THEN shifts + 1 ELSE shifts
        /\ seen_sub' = seen_sub \cup {sub}
        /\ seen_obj' = seen_obj \cup {obj}
        /\ on_scenario' = Follows(sub, rel, obj, t)
        /\ first' = Tracked(sub, rel, obj, shifts')
        /\ max_t' = Max(max_t, t)
        /\ UNCHANGED <<seq_len, raised, net>>

\* __call__(data) returning normally.
Call(sub, rel, obj, t) ==
    LET cond == NeedsGrowth(sub_hist, sub, obj)
        sh1 == Grown(sub_hist, cond, seq_len)
        oh1 == Grown(obj_hist, cond, seq_len)
        hs == get_history(sh1, sub, rel, seq_len)
        ho == get_history(oh1, obj, rel, seq_len)
        sh2 == Advanced(AfterQuery(sh1, sub, seq_len), t, t_last)
        oh2 == Advanced(AfterQuery(oh1, obj, seq_len), t, t_last)
    IN  /\ ~raised
        /\ calls < MaxEvents
        /\ sub < Len(sh1)
        /\ obj < Len(oh1)
        /\ data' = [sub |-> sub, rel |-> rel, obj |-> obj, t |-> t,
                    h_sub |-> hs[1], h_sub_t |-> hs[2],
                    h_obj |-> ho[1], h_obj_t |-> ho[2]]
        /\ t_last' = NewTLast(t, t_last)
        /\ sub_hist' = AppendLast(sh2, sub, <<obj, rel>>)
        /\ obj_hist' = AppendLast(oh2, obj, <<sub, rel>>)
        /\ calls' = calls + 1
        /\ shifts' = IF t > t_last THEN shifts + 1 ELSE shifts
        /\ seen_sub' = seen_sub \cup {sub}
        /\ seen_obj' = seen_obj \cup {obj}
        /\ on_scenario' = Follows(sub, rel, obj, t)
        /\ first' = Tracked(sub, rel, obj, shifts')
        /\ max_t' = Max(max_t, t)
        /\ UNCHANGED <<seq_len, raised, net>>

\* __call__(data) leaving with an IndexError raised by hist[node] in
\* get_history: the buffers were grown once and the id is still outside.
CallIndexError(sub, rel, obj, t) ==
    LET cond == NeedsGrowth(sub_hist, sub, obj)
        sh1 == Grown(sub_hist, cond, seq_len)
        oh1 == Grown(obj_hist, cond, seq_len)
        hs == IF sub < Len(sh1) THEN get_history(sh1, sub, rel, seq_len)
              ELSE <<NoHistory, NoHistory>>
    IN  /\ ~raised
        /\ calls < MaxEvents
        /\ (sub >= Len(sh1) \/ obj >= Len(oh1))
        /\ data' = [sub |-> sub, rel |-> rel, obj |-> obj, t |-> t,
                    h_sub |-> hs[1], h_sub_t |-> hs[2],
                    h_obj |-> NoHistory, h_obj_t |-> NoHistory]
        /\ sub_hist' = IF sub < Len(sh1) THEN AfterQuery(sh1, sub, seq_len)
                        ELSE sh1
        /\ obj_hist' = oh1
        /\ raised' = TRUE
        /\ calls' = calls + 1
        /\ on_scenario' = FALSE
        /\ UNCHANGED <<seq_len, t_last, shifts, seen_sub, seen_obj, first,
                       max_t, net>>

Next ==
    \/ \E sub \in Subjects, rel \in Rels, obj \in Objects, t \in Times :
          Call(sub, rel, obj, t)
    \/ \E sub \in Subjects, rel \in Rels, obj \in Objects, t \in Times :
          CallIndexError(sub, rel, obj, t)

Spec == Init /\ [][Next]_vars

\* RENet.__init__ next to a fresh tracker, and a batch of batch_size examples.
InitForward ==
    /\ seq_len \in 1..MaxSeqLen
    /\ t_last = 0
    /\ sub_hist = increase_hist_node_size(<<>>, seq_len)
    /\ obj_hist = increase_hist_node_size(<<>>, seq_len)
    /\ data = NoData
    /\ raised = FALSE
    /\ calls = 0
    /\ shifts = 0
    /\ seen_sub = {}
    /\ seen_obj = {}
    /\ on_scenario = TRUE
    /\ first = NoFirst
    /\ max_t = 0
    /\ \E l \in 1..MaxLayers, h \in 1..MaxHidden,
          n \in 1..MaxNumNodes, b \in 1..MaxBatch :
          net = [NoNet EXCEPT !.num_layers = l, !.hidden_channels = h,
                              !.num_nodes = n, !.batch_size = b,
                              !.state = "built"]

Tracker == <<seq_len, t_last, sub_hist, obj_hist, data, raised,
             calls, shifts, seen_sub, seen_obj, on_scenario, first,
             max_t>>

\* forward(data) returning (pred_sub, pred_obj).
Forward ==
    LET h == Squeeze0(GRUHidden(net.num_layers, net.batch_size,
                                net.hidden_channels))
        p == PredShape(net.num_layers, net.batch_size,
                       net.hidden_channels, net.num_nodes)
    IN  /\ net.state = "built"
        /\ p # ShapeError
        /\ net' = [net EXCEPT !.state = "returned", !.h_sub = h,
                              !.pred_sub = p, !.pred_obj = p]
        /\ UNCHANGED Tracker

\* forward(data) leaving with the RuntimeError of torch.cat (line 144).
ForwardShapeError ==
    LET h == Squeeze0(GRUHidden(net.num_layers, net.batch_size,
                                net.hidden_channels))
        p == PredShape(net.num_layers, net.batch_size,
                       net.hidden_channels, net.num_nodes)
    IN  /\ net.state = "built"
        /\ p = ShapeError
        /\ net' = [net EXCEPT !.state = "raised", !.h_sub = h]
        /\ UNCHANGED Tracker

NextForward == Forward \/ ForwardShapeError

SpecForward == InitForward /\ [][NextForward]_vars


(***************************************************************************)
(* Vocabulary of the properties.  These definitions describe a query       *)
(* result declaratively, slot by slot, independently of the way            *)
(* get_history computes it.                                                *)
(***************************************************************************)

\* The slot list of entity e in hist; an id beyond the buffer has no entries.
SlotsOf(hist, e) ==
    IF e < Len(hist) THEN At(hist, e) ELSE [s \in 1..seq_len |-> <<>>]

\* The partners stored in one slot under relation r, in insertion order.
Matching(slot, r) ==
    LET HasRel(entry) == entry[2] = r
        sel == SelectSeq(slot, HasRel)
    IN  [k \in 1..Len(sel) |-> sel[k][1]]

\* The partners of a result (partners, ts) that carry slot index s, in order.
PartnersAt(partners, ts, s) ==
    LET zipped == [k \in 1..Len(partners) |-> <<partners[k], ts[k]>>]
        InSlot(p) == p[2] = s
        sel == SelectSeq(zipped, InSlot)
    IN  [k \in 1..Len(sel) |-> sel[k][1]]

\* (partners, ts) is the history of the slot list slots under relation r:
\* parallel sequences, slot indices in range and ascending, and per slot
\* exactly the stored partners of relation r in insertion order.
IsQueryResult(slots, r, partners, ts) ==
    /\ Len(partners) = Len(ts)
    /\ \A k \in 1..Len(ts) : ts[k] \in 0..(seq_len - 1)
    /\ \A k \in 1..(Len(ts) - 1) : ts[k] <= ts[k + 1]
    /\ \A s \in 0..(Len(slots) - 1) :
          PartnersAt(partners, ts, s) = Matching(slots[s + 1], r)

\* The last transition was a call that returned normally.
Returned == calls' = calls + 1 /\ ~raised'

\* C1: the history a call returns (h_sub, h_sub_t, h_obj, h_obj_t) is the
\* history held by the buffers as they were when the call began (an id the
\* buffers did not yet cover has none), so the entry the call records itself
\* is never part of its own output.
C1_NoSelfLeakage ==
    [][Returned =>
        /\ IsQueryResult(SlotsOf(sub_hist, data'.sub), data'.rel,
                         data'.h_sub, data'.h_sub_t)
        /\ IsQueryResult(SlotsOf(obj_hist, data'.obj), data'.rel,
                         data'.h_obj, data'.h_obj_t)]_vars

\* A second call returned a non-empty subject history and a non-empty object
\* history, and recorded one more entry under the same entity and relation.
C1_Witness ==
    /\ calls = 2
    /\ ~raised
    /\ data.h_sub # <<>>
    /\ data.h_obj # <<>>

\* C2 (as stated): with seq_len = 2, after the events (0, 0, 1, t=0) and (0, 0, 2, t=1)
\* on a fresh tracker, the subject history of (entity 0, relation 0) is
\* partner = [1], slot = [0].
C2_Scenario ==
    (seq_len = 2 /\ on_scenario /\ calls = Len(Scenario))
        => get_history(sub_hist, 0, 0, seq_len) = << <<1>>, <<0>> >>

\* C2 (amended): in that scenario the subject history of (entity 0,
\* relation 0) is partner = [1, 2], slot = [0, 1]: the second event is already
\* recorded, in the newest slot, and the first has moved to slot 0.
C2_ScenarioAmended ==
    (seq_len = 2 /\ on_scenario /\ calls = Len(Scenario))
        => get_history(sub_hist, 0, 0, seq_len) = << <<1, 2>>, <<0, 1>> >>

C2_Witness == seq_len = 2 /\ on_scenario /\ calls = Len(Scenario) /\ ~raised

\* C3: after a call, both buffers cover the entity ids of the event the call
\* was given: their length is at least max(sub, obj) + 1.
C3_CapacityCoversIds ==
    calls >= 1 =>
        /\ Len(sub_hist) >= Max(data.sub, data.obj) + 1
        /\ Len(obj_hist) >= Max(data.sub, data.obj) + 1

\* C4: every entity of the subject buffer and of the object buffer has
\* exactly seq_len slots.
C4_WindowInvariant ==
    /\ \A i \in 1..Len(sub_hist) : Len(sub_hist[i]) = seq_len
    /\ \A i \in 1..Len(obj_hist) : Len(obj_hist[i]) = seq_len

\* The buffers have grown, been shifted and been written to.
C4_Witness ==
    /\ ~raised
    /\ Len(sub_hist) > Inc
    /\ shifts >= 1
    /\ \E i \in 1..Len(sub_hist) : sub_hist[i][seq_len] # <<>>

\* a is an initial segment of b.
IsPrefix(a, b) == Len(a) <= Len(b) /\ SubSeq(b, 1, Len(a)) = a

\* What a returned call leaves in the last slot of entity e of a buffer whose
\* last slot held `before`: the entry of the call if e is the indexed entity.
WithEntry(before, e, node, partner, rel) ==
    IF e = node THEN Append(before, <<partner, rel>>) ELSE before

\* C5: a call whose timestamp is strictly greater than t_last shifts both
\* buffers exactly once, whatever the gap: for every entity the old slot 0 is
\* dropped, old slot i (i >= 1) becomes slot i-1, the new last slot is empty
\* (it holds nothing but the entry the call then records), and t_last
\* becomes the timestamp of the event.
C5_AdvanceShiftsOnce ==
    [][(Returned /\ data'.t > t_last) =>
        /\ t_last' = data'.t
        /\ \A e \in 0..(Len(sub_hist') - 1) :
              LET old == SlotsOf(sub_hist, e)
                  new == At(sub_hist', e)
              IN  /\ Len(new) = Len(old)
                  /\ \A i \in 1..(seq_len - 1) : new[i] = old[i + 1]
                  /\ new[seq_len] =
                        WithEntry(<<>>, e, data'.sub, data'.obj, data'.rel)
        /\ \A e \in 0..(Len(obj_hist') - 1) :
              LET old == SlotsOf(obj_hist, e)
                  new == At(obj_hist', e)
              IN  /\ Len(new) = Len(old)
                  /\ \A i \in 1..(seq_len - 1) : new[i] = old[i + 1]
                  /\ new[seq_len] =
                        WithEntry(<<>>, e, data'.obj, data'.sub, data'.rel)]_vars

\* With seq_len = 2, the first call did not shift and the second, at
\* t = MaxT (a gap of MaxT >= 2), shifted: the entry of the first call is in
\* slot 0.
C5_Witness ==
    /\ seq_len = 2
    /\ calls = 2
    /\ ~raised
    /\ shifts = 1
    /\ t_last = MaxT
    /\ data.t = MaxT
    /\ At(sub_hist, data.sub)[1] # <<>>

\* C6: a call whose timestamp is less than or equal to t_last does not
\* advance: t_last is unchanged and, for every entity, the slot count is
\* unchanged, every slot but the last is unchanged and the last slot keeps
\* its content in place (the record only adds to its end).
C6_AdvanceNoOp ==
    [][(Returned /\ data'.t <= t_last) =>
        /\ t_last' = t_last
        /\ \A e \in 0..(Len(sub_hist) - 1) :
              LET old == At(sub_hist, e)
                  new == At(sub_hist', e)
              IN  /\ Len(new) = Len(old)
                  /\ \A i \in 1..(seq_len - 1) : new[i] = old[i]
                  /\ IsPrefix(old[seq_len], new[seq_len])
        /\ \A e \in 0..(Len(obj_hist) - 1) :
              LET old == At(obj_hist, e)
                  new == At(obj_hist', e)
              IN  /\ Len(new) = Len(old)
                  /\ \A i \in 1..(seq_len - 1) : new[i] = old[i]
                  /\ IsPrefix(old[seq_len], new[seq_len])]_vars

\* The first call shifted and the second, with the same timestamp, did not:
\* both entries are in the same last slot.
C6_Witness ==
    /\ calls = 2
    /\ ~raised
    /\ shifts = 1
    /\ data.t = t_last
    /\ Len(At(sub_hist, data.sub)[seq_len]) = 2

\* C7: for every role, entity within capacity and relation r, get_history
\* returns two sequences of equal length that hold, slot by slot in ascending
\* slot order and within a slot in insertion order, exactly the partners
\* stored under relation r, each with the index of its slot in [0, seq_len).
C7_QueryExact ==
    \A r \in Rels \cup {MaxRel + 1} :
        /\ \A e \in 0..(Len(sub_hist) - 1) :
              LET q == get_history(sub_hist, e, r, seq_len)
              IN  IsQueryResult(At(sub_hist, e), r, q[1], q[2])
        /\ \A e \in 0..(Len(obj_hist) - 1) :
              LET q == get_history(obj_hist, e, r, seq_len)
              IN  IsQueryResult(At(obj_hist, e), r, q[1], q[2])

\* Some slot holds entries of two different relations.
C7_Witness ==
    \E e \in 0..(Len(sub_hist) - 1), s \in 1..seq_len :
        \E k1, k2 \in 1..Len(At(sub_hist, e)[s]) :
            At(sub_hist, e)[s][k1][2] # At(sub_hist, e)[s][k2][2]

\* C8: relative to the buffers as grown and advanced by the call, the record
\* step appends (obj, rel) at the end of the last slot of sub_hist[sub] and
\* (sub, rel) at the end of the last slot of obj_hist[obj]; every other slot,
\* every other entity, the buffer lengths and t_last are unchanged.
C8_RecordFrame ==
    [][Returned =>
        LET cond == NeedsGrowth(sub_hist, data'.sub, data'.obj)
            ms == Advanced(Grown(sub_hist, cond, seq_len), data'.t, t_last)
            mo == Advanced(Grown(obj_hist, cond, seq_len), data'.t, t_last)
        IN  /\ Len(sub_hist') = Len(ms)
            /\ Len(obj_hist') = Len(mo)
            /\ \A e \in 0..(Len(ms) - 1) :
                  /\ Len(At(sub_hist', e)) = seq_len
                  /\ \A i \in 1..(seq_len - 1) :
                        At(sub_hist', e)[i] = At(ms, e)[i]
                  /\ At(sub_hist', e)[seq_len] =
                        WithEntry(At(ms, e)[seq_len], e,
                                  data'.sub, data'.obj, data'.rel)
            /\ \A e \in 0..(Len(mo) - 1) :
                  /\ Len(At(obj_hist', e)) = seq_len
                  /\ \A i \in 1..(seq_len - 1) :
                        At(obj_hist', e)[i] = At(mo, e)[i]
                  /\ At(obj_hist', e)[seq_len] =
                        WithEntry(At(mo, e)[seq_len], e,
                                  data'.obj, data'.sub, data'.rel)
            /\ t_last' = NewTLast(data'.t, t_last)]_vars

\* A call with sub = obj appended to a last slot that already held an entry,
\* in both buffers.
C8_Witness ==
    /\ calls = 2
    /\ ~raised
    /\ data.sub = data.obj
    /\ Len(At(sub_hist, data.sub)[seq_len]) = 2
    /\ Len(At(obj_hist, data.obj)[seq_len]) = 2

\* C9: the capacity step leaves the buffer lengths alone when max(sub, obj)
\* is below the current length; otherwise it appends exactly Inc entities,
\* each with seq_len empty slots, to both buffers, and the existing entities
\* are as the rest of the call alone would leave them.
C9_CapacityStep ==
    [][calls' = calls + 1 =>
        LET n == Len(sub_hist)
            grows == ~(Max(data'.sub, data'.obj) < n)
            kept(hist, node, partner) ==
                [e \in 1..Len(hist) |->
                    IF raised' THEN hist[e]
                    ELSE LET a == Advanced(hist, data'.t, t_last)[e]
                         IN  [a EXCEPT ![seq_len] =
                                 WithEntry(@, e - 1, node, partner, data'.rel)]]
            fresh(e, node, partner) ==
                [i \in 1..seq_len |->
                    IF i = seq_len /\ ~raised'
                    THEN WithEntry(<<>>, e - 1, node, partner, data'.rel)
                    ELSE <<>>]
        IN  /\ Len(sub_hist') = IF grows THEN n + Inc ELSE n
            /\ Len(obj_hist') = IF grows THEN Len(obj_hist) + Inc
                                ELSE Len(obj_hist)
            /\ SubSeq(sub_hist', 1, n) = kept(sub_hist, data'.sub, data'.obj)
            /\ SubSeq(obj_hist', 1, Len(obj_hist)) =
                  kept(obj_hist, data'.obj, data'.sub)
            /\ \A e \in (n + 1)..Len(sub_hist') :
                  sub_hist'[e] = fresh(e, data'.sub, data'.obj)
            /\ \A e \in (Len(obj_hist) + 1)..Len(obj_hist') :
                  obj_hist'[e] = fresh(e, data'.obj, data'.sub)]_vars

\* The first call (id Inc) grew the capacity from Inc to 2 * Inc and the
\* second, whose largest id is Inc - 1, left it alone.
C9_Witness ==
    /\ calls = 2
    /\ ~raised
    /\ Len(sub_hist) = 2 * Inc
    /\ Len(obj_hist) = 2 * Inc
    /\ Max(data.sub, data.obj) = Inc - 1

\* C10: an entity within capacity that was never the subject (object) of a
\* processed event has an empty subject-role (object-role) history under
\* every relation.
C10_UnseenEmpty ==
    \A r \in Rels :
        /\ \A e \in 0..(Len(sub_hist) - 1) :
              e \notin seen_sub =>
                  get_history(sub_hist, e, r, seq_len) = << <<>>, <<>> >>
        /\ \A e \in 0..(Len(obj_hist) - 1) :
              e \notin seen_obj =>
                  get_history(obj_hist, e, r, seq_len) = << <<>>, <<>> >>

\* An entity was recorded as object but never as subject, while the subject
\* buffer holds entries of another entity.
C10_Witness ==
    /\ ~raised
    /\ \E e \in seen_obj \ seen_sub : e < Len(sub_hist)
    /\ \E e \in seen_sub : \E s \in 1..seq_len : At(sub_hist, e)[s] # <<>>

\* C11: get_history does not mutate the tracker: for every role, entity
\* within capacity and relation, the buffer after the query is the buffer
\* before it, and the same query made again returns the same result.
C11_QueryDoesNotMutate ==
    \A r \in Rels :
        /\ \A e \in 0..(Len(sub_hist) - 1) :
              LET after == AfterQuery(sub_hist, e, seq_len)
              IN  /\ after = sub_hist
                  /\ get_history(after, e, r, seq_len) =
                        get_history(sub_hist, e, r, seq_len)
        /\ \A e \in 0..(Len(obj_hist) - 1) :
              LET after == AfterQuery(obj_hist, e, seq_len)
              IN  /\ after = obj_hist
                  /\ get_history(after, e, r, seq_len) =
                        get_history(obj_hist, e, r, seq_len)

\* Some entity holds entries in both buffers, so a query reads stored lists.
C11_Witness ==
    /\ \E e \in 0..(Len(sub_hist) - 1) :
          get_history(sub_hist, e, 0, seq_len)[1] # <<>>
    /\ \E e \in 0..(Len(obj_hist) - 1) :
          get_history(obj_hist, e, 0, seq_len)[1] # <<>>

\* The slot indices a query result (partners, ts) gives for partner p.
SlotsHolding(q, p) == {q[2][k] : k \in {i \in 1..Len(q[1]) : q[1][i] = p}}

\* The number of positions of a query result that hold partner p.
Occurrences(q, p) == Cardinality({i \in 1..Len(q[1]) : q[1][i] = p})

C12_Aged ==
    /\ first.at # -1
    /\ ~first.again
    /\ seq_len = 2
    /\ shifts - first.at = 1

\* C13: an event whose timestamp is smaller than t_last is processed like any
\* other: the call raises only when an id is still outside the grown
\* buffers, never because of the timestamp; when it returns, no shift
\* happened, t_last is unchanged, and the entries of the event are at the end
\* of the current last slot, whose earlier content and all other slots are
\* as before.
C13_OutOfOrderAccepted ==
    [][(calls' = calls + 1 /\ data'.t < t_last) =>
        /\ raised' <=> Max(data'.sub, data'.obj) >= Len(sub_hist')
        /\ Returned =>
            /\ t_last' = t_last
            /\ shifts' = shifts
            /\ \A e \in 0..(Len(sub_hist') - 1) :
                  /\ \A i \in 1..(seq_len - 1) :
                        At(sub_hist', e)[i] = SlotsOf(sub_hist, e)[i]
                  /\ At(sub_hist', e)[seq_len] =
                        WithEntry(SlotsOf(sub_hist, e)[seq_len], e,
                                  data'.sub, data'.obj, data'.rel)
            /\ \A e \in 0..(Len(obj_hist') - 1) :
                  /\ \A i \in 1..(seq_len - 1) :
                        At(obj_hist', e)[i] = SlotsOf(obj_hist, e)[i]
                  /\ At(obj_hist', e)[seq_len] =
                        WithEntry(SlotsOf(obj_hist, e)[seq_len], e,
                                  data'.obj, data'.sub, data'.rel)]_vars

\* The first call shifted to a timestamp above that of the second call, and
\* the second call recorded into the same last slot.
C13_Witness ==
    /\ calls = 2
    /\ ~raised
    /\ shifts = 1
    /\ data.t < t_last
    /\ Len(At(sub_hist, data.sub)[seq_len]) = 2

\* C14: in forward, for slot indices in [0, seq_len) and batch tags in
\* [0, batch_size), the bucket id slot + tag * seq_len lies in
\* [0, batch_size * seq_len) and is injective in the pair (tag, slot).
C14_BucketIdInjective ==
    \A batch_size \in 1..MaxBatch :
        \A b1, b2 \in 0..(batch_size - 1), s1, s2 \in 0..(seq_len - 1) :
            /\ BucketId(s1, b1, seq_len) \in 0..(DimSize(batch_size, seq_len) - 1)
            /\ BucketId(s1, b1, seq_len) = BucketId(s2, b2, seq_len)
                  => (b1 = b2 /\ s1 = s2)

\* A stored history spans two slot indices (seq_len = 2); as the histories
\* of the examples 0 and 1 of a batch its entries fall into different buckets.
C14_Witness ==
    /\ seq_len = 2
    /\ \E e \in 0..(Len(sub_hist) - 1) :
          LET ts == get_history(sub_hist, e, 0, seq_len)[2]
          IN  \E k1, k2 \in 1..Len(ts) :
                  /\ ts[k1] < ts[k2]
                  /\ BucketId(ts[k2], 0, seq_len) < BucketId(ts[k1], 1, seq_len)

\* C15: for every num_layers >= 1, forward takes the final hidden state of an
\* encoder as one vector of width hidden_channels per example and returns
\* two outputs of shape (batch_size, num_nodes).
C15_ForwardShapes ==
    net.state \in {"returned", "raised"} =>
        /\ net.state = "returned"
        /\ net.h_sub = <<net.batch_size, net.hidden_channels>>
        /\ net.pred_sub = <<net.batch_size, net.num_nodes>>
        /\ net.pred_obj = <<net.batch_size, net.num_nodes>>

\* C16: when a call follows a call with the same timestamp and relation, and
\* has the same subject (object), the subject-role (object-role) history it
\* returns ends with the entry of the previous event, at slot index
\* seq_len - 1.
C16_SameTimestampVisible ==
    [][(Returned /\ calls >= 1 /\ data'.t = data.t /\ data'.rel = data.rel) =>
        /\ data'.sub = data.sub =>
              /\ data'.h_sub # <<>>
              /\ data'.h_sub[Len(data'.h_sub)] = data.obj
              /\ data'.h_sub_t[Len(data'.h_sub_t)] = seq_len - 1
        /\ data'.obj = data.obj =>
              /\ data'.h_obj # <<>>
              /\ data'.h_obj[Len(data'.h_obj)] = data.sub
              /\ data'.h_obj_t[Len(data'.h_obj_t)] = seq_len - 1]_vars

\* The first call shifted to its timestamp t > 0, the second call had the
\* same timestamp, subject and relation and returned the first event's entry.
C16_Witness ==
    /\ calls = 2
    /\ ~raised
    /\ shifts = 1
    /\ data.t = t_last
    /\ Len(At(sub_hist, data.sub)[seq_len]) = 2
    /\ At(sub_hist, data.sub)[seq_len][1][2] = data.rel
    /\ data.h_sub # <<>>

\* C17: t_last starts at 0 and never decreases; after every call that
\* returns it equals the maximum of 0 and the timestamps processed so far; a
\* call with a timestamp <= 0 does not shift; and a call shifts exactly when
\* it strictly increases t_last.
C17_SimulatedTime ==
    /\ t_last = 0
    /\ [][/\ t_last' >= t_last
          /\ Returned =>
                /\ t_last' = max_t'
                /\ t_last' = Max(t_last, data'.t)
                /\ data'.t <= 0 => shifts' = shifts
                /\ shifts' \in {shifts, shifts + 1}
                /\ (shifts' = shifts + 1) <=> (t_last' > t_last)]_vars

\* Two calls returned; the first raised t_last to MaxT with one shift, the
\* second, with a smaller positive timestamp, left t_last and the shift count
\* as they were.
C17_Witness ==
    /\ calls = 2
    /\ ~raised
    /\ t_last = MaxT
    /\ max_t = MaxT
    /\ shifts = 1
    /\ data.t > 0
    /\ data.t < t_last

\* The number of entries held in slot k (1-based) over all nodes of a buffer.
RECURSIVE SlotTotal(_, _, _)
SlotTotal(hist, k, n) ==
    IF n = 0 THEN 0 ELSE SlotTotal(hist, k, n - 1) + Len(hist[n][k])

\* The number of entries held in a buffer, over all nodes and slots 1..k.
RECURSIVE Entries(_, _)
Entries(hist, k) ==
    IF k = 0 THEN 0 ELSE Entries(hist, k - 1) + SlotTotal(hist, k, Len(hist))

\* The two buffers have one length, a positive multiple of inc, and hold
\* the same number of entries slot by slot.
BuffersAligned(sh, oh) ==
    /\ Len(sh) = Len(oh)
    /\ Len(sh) >= Inc
    /\ Len(sh) % Inc = 0
    /\ \A k \in 1..seq_len :
           SlotTotal(sh, k, Len(sh)) = SlotTotal(oh, k, Len(oh))

\* C18: the subject and the object buffer always have the same length, a
\* positive multiple of inc that starts at inc and never decreases; a call
\* that returns adds exactly one entry to each buffer (net of the oldest
\* slots a shift drops), so both buffers have had the same number of entries
\* recorded.
C18_BuffersInLockstep ==
    /\ Len(sub_hist) = Inc
    /\ BuffersAligned(sub_hist, obj_hist)
    /\ [][/\ BuffersAligned(sub_hist', obj_hist')
          /\ Len(sub_hist') >= Len(sub_hist)
          /\ Len(obj_hist') >= Len(obj_hist)
          /\ Returned =>
                LET droppedSub == IF shifts' > shifts
                                  THEN SlotTotal(sub_hist, 1, Len(sub_hist))
                                  ELSE 0
                    droppedObj == IF shifts' > shifts
                                  THEN SlotTotal(obj_hist, 1, Len(obj_hist))
                                  ELSE 0
                IN  /\ Entries(sub_hist', seq_len)
                          = Entries(sub_hist, seq_len) - droppedSub + 1
                    /\ Entries(obj_hist', seq_len)
                          = Entries(obj_hist, seq_len) - droppedObj + 1
                    /\ SlotTotal(sub_hist', seq_len, Len(sub_hist'))
                          = SlotTotal(obj_hist', seq_len, Len(obj_hist'))]_vars

\* Two calls returned, the first of them grew both buffers to 2 * inc, and
\* each buffer holds the two entries recorded.
C18_Witness ==
    /\ calls = 2
    /\ ~raised
    /\ Len(sub_hist) = 2 * Inc
    /\ Len(obj_hist) = 2 * Inc
    /\ Entries(sub_hist, seq_len) = 2
    /\ Entries(obj_hist, seq_len) = 2
====
